---- MODULE Spec2Model ----
(***************************************************************************)
(* Telemetry ingestion pipeline of the monitoring dashboard.               *)
(*                                                                         *)
(* Part 1: the connection manager, src/mqtthandler.py.                     *)
(*   MQTTWorker  - owns the paho client, the retry cycle, the              *)
(*                 subscriptions and the message callback.                 *)
(*   MQTTHandler - owns the QThread the worker lives in.                   *)
(*                                                                         *)
(* Part 2: the frame codec, the ring buffers, the recording gate and the   *)
(* repository: src/publish6.py (encoder), src/features/time_view.py,       *)
(* src/dashboard.py (dispatch, toolbar), src/database.py.                  *)
(*                                                                         *)
(* The specifications share the variables:                                 *)
(*   Spec        the worker's operations and callbacks, the QTimer retry   *)
(*               timers, the broker and the tag table;                     *)
(*   SpecHandler MQTTHandler.start/stop on the UI thread interleaved with  *)
(*               the worker thread and the network loop;                   *)
(*   SpecMsg     MQTTWorker.on_message on a connected worker;              *)
(*   SpecCodec   frames through the publisher's encoder and the decoder;   *)
(*   SpecView    messages of every shape from the connected worker through *)
(*               the dashboard to the Time View feature;                   *)
(*   SpecRec     recording sessions of the Time View feature;              *)
(*   SpecBuf     the ring buffers of the Time View under a stream of       *)
(*               frames;                                                   *)
(*   SpecResize  the window of the Time View changed while frames arrive;  *)
(*   SpecDash    the dashboard's connect and disconnect actions over the   *)
(*               handler, its thread and the worker.                       *)
(***************************************************************************)
EXTENDS Integers, Sequences, FiniteSets, TLC

\* ------------------------------------------------------------------------
\* Program constants and bounds
\* ------------------------------------------------------------------------

\* MQTTWorker.__init__: self.max_retries = 5
max_retries == 5

\* MQTTWorker.__init__: self.base_retry_interval = 5 (seconds)
base_retry_interval == 5

\* Tag names (MQTT topics) that can exist in the tag table of the project.
Topics == {"t1", "t2"}

\* int(random.uniform(0, 0.1) * 1000): the extremes of the jitter, in ms.
JitterMs == {0, 100}

\* Most QTimer.singleShot timers pending at once.
MaxTimers == 2

\* Most client.connect calls counted in one cycle (past max_retries, so that
\* an overrun of the retry bound is observable).
MaxAttempts == 7

\* Byte values a payload is built from (low, middle, high).
PayloadBytes == {0, 1, 255}

\* Longest payload, in bytes.
MaxPayloadBytes == 3

\* Capacity of each channel deque as TimeViewFeature.__init__ computes it,
\* int(data_rate * window_size) = 4096 in the program, scaled down here:
\* buffer_size entries of the model stand for the samples of one second.
buffer_size == 2

\* TimeViewFeature.__init__: self.data_rate = 4096.0
data_rate == 4096

\* TimeViewFeature.__init__: self.window_size = 1.0, in half seconds.
DefaultWindow == 2

VARIABLES
    \* MQTTWorker fields
    running,                \* self.running
    retry_count,            \* self.retry_count
    subscribed_topics,      \* self.subscribed_topics
    pending_subscriptions,  \* self.pending_subscriptions
    \* paho client and broker
    conn,                   \* "down" | "sent" (CONNECT sent) | "up" (CONNACK 0)
    loop,                   \* the network loop thread is running
    brokerSubs,             \* topics subscribed in the live broker session
    \* Qt event loop of the worker thread
    timers,                 \* pending singleShot(attempt_connection) timers
    \* tag table of the project (db.tags_collection)
    tags,
    \* observation of the run (not program state)
    last,                   \* the operation that ran last and what it did
    attempts,               \* client.connect calls since the last cycle began
    exhausted,              \* the cycle hit the retry bound (line 61-66)
    hist,                   \* shape of the current cycle, see HistIdle
    \* MQTTHandler and its QThread
    handler_running,        \* MQTTHandler.running
    thread,                 \* "idle" | "started" | "exec" | "finished"
    quit_requested,         \* QThread.quit() was called on the running thread
    ui_pc,                  \* position of the UI thread inside MQTTHandler.stop
    \* message stream
    saw_malformed,          \* a malformed payload has been received
    \* TimeViewFeature fields
    mqtt_tag,               \* self.mqtt_tag ("none": no tag selected)
    tag_combo,              \* the tags listed in self.tag_combo
    is_saving,              \* self.is_saving
    frame_index,            \* self.frame_index, the session's counter
    filename_counter,       \* self.filename_counter
    num_channels,           \* self.num_channels (0: no axes yet)
    time_view_buffers,      \* self.time_view_buffers, one deque per channel
    time_view_timestamps,   \* self.time_view_timestamps: per sample, its
                            \* offset in the frame that brought it
    window_size,            \* self.window_size, in half seconds
    deque_maxlen,           \* self.buffer_size, the maxlen of every deque
    \* DashboardWindow
    toolbar_saving,         \* DashboardWindow.is_saving as the sub-toolbar
                            \* showed it when it was last rebuilt
    dashboard_is_saving,    \* DashboardWindow.is_saving
    mqtt_handler,           \* DashboardWindow.mqtt_handler: "none" | "handler"
    mqtt_connected,         \* DashboardWindow.mqtt_connected
    dash_pc,                \* the dashboard operation the UI thread is in
    status_pending,         \* connection_status signals queued for the UI
                            \* thread: "none", or what the last of them says
    appended,               \* observation: per channel buffer, the values
                            \* appended since the buffers were created
    seen,                   \* observation of the frames that reached the
                            \* Time View, see NoneSeen
    session,                \* observation of the recording session, see
                            \* NoSession
    \* repository (db.timeview_collection), in insertion order
    timeview_collection

workerVars == <<running, retry_count, subscribed_topics, pending_subscriptions>>

clientVars == <<conn, loop, brokerSubs>>

ghostVars == <<last, attempts, exhausted, hist>>

handlerVars == <<handler_running, thread, quit_requested, ui_pc>>

featureVars == <<mqtt_tag, tag_combo, is_saving, frame_index,
                 filename_counter, num_channels, time_view_buffers,
                 toolbar_saving, session, time_view_timestamps, window_size,
                 deque_maxlen, dashboard_is_saving, appended, seen>>

dashboardVars == <<mqtt_handler, mqtt_connected, dash_pc, status_pending>>

vars == <<running, retry_count, subscribed_topics, pending_subscriptions,
          conn, loop, brokerSubs, timers, tags, last, attempts, exhausted,
          hist, handler_running, thread, quit_requested, ui_pc,
          saw_malformed, mqtt_tag, tag_combo, is_saving, frame_index,
          filename_counter, num_channels, time_view_buffers, toolbar_saving,
          session, timeview_collection, time_view_timestamps, window_size,
          deque_maxlen, dashboard_is_saving, mqtt_handler, mqtt_connected,
          dash_pc, status_pending, appended, seen>>

Min(a, b) == IF a < b THEN a ELSE b

RECURSIVE Pow2(_)
Pow2(n) == IF n <= 0 THEN 1 ELSE 2 * Pow2(n - 1)

\* ------------------------------------------------------------------------
\* Observation records
\* ------------------------------------------------------------------------

\* What has been seen of the frames that reached the Time View:
\*   zero      a frame with a channel count of 0 has been among them
\*   reshaped  the last message was a frame that found buffers holding
\*             samples of another channel count
NoneSeen == [zero |-> FALSE, reshaped |-> FALSE]

\* What the last operation did: its name, whether it ran to its end (its
\* guard let it act and no exception left it), the outcome of
\* client.connect if it called it ("none" | "ok" | "raised"), the topics
\* whose client.subscribe call raised inside subscribe_to_topics, the
\* pending_subscriptions on entry to on_connect (queued), and the signals
\* it emitted.
Did(op, eff, connect, failed, signals) ==
    [op |-> op, eff |-> eff, connect |-> connect, failed |-> failed,
     queued |-> {}, signals |-> signals]

\* The shape of the cycle begun by the last start():
\*   phase "trying"    only failed attempts so far; fails = their delays (ms)
\*         "tcp"       ... followed by one client.connect that returned
\*         "connected" ... followed by on_connect(rc = 0)
\*         "off"       anything else happened
\*   subs  number of subscribe_to_topics invocations (saturates at 2)
HistIdle == [phase |-> "idle", fails |-> <<>>, subs |-> 0]

HistOff == [phase |-> "off", fails |-> <<>>, subs |-> 0]

\* ------------------------------------------------------------------------
\* MQTTWorker: the retry cycle
\* ------------------------------------------------------------------------

\* Delay with the exponent dropped: a fixed retry interval.
Delay_fixed(n, j) == base_retry_interval * 1000 + j

\* delay = base_retry_interval * 2 ** (retry_count - 1) + uniform(0, 0.1),
\* handed to QTimer.singleShot as int(delay * 1000) milliseconds; n is
\* retry_count after the increment, j the jitter in ms.
Delay(n, j) == base_retry_interval * Pow2(n - 1) * 1000 + j

\* attempt_connection, as a function of retry_count at the call (rc0), of
\* what client.connect does (out: "ok" returns, "raised" raises) and of the
\* jitter drawn: the new retry_count, whether client.connect was called and
\* returned, the signals emitted and the delay of the timer scheduled
\* (0: none).
attempt_connection(rc0, out, j) ==
    IF rc0 >= max_retries
    THEN [retry_count |-> rc0, called |-> FALSE, ok |-> FALSE,
          signals |-> {"connection_failed", "status_update"}, delay |-> 0]
    ELSE IF out = "ok"
    THEN [retry_count |-> 0, called |-> TRUE, ok |-> TRUE,
          signals |-> {"connected", "status_update"}, delay |-> 0]
    ELSE [retry_count |-> rc0 + 1, called |-> TRUE, ok |-> FALSE,
          signals |-> {"status_update"}, delay |-> Delay(rc0 + 1, j)]

\* The cycle shape after one attempt_connection with result r.
HistAttempt(h, r) ==
    IF h.phase = "idle" THEN h
    ELSE IF h.phase # "trying" \/ ~r.called THEN HistOff
    ELSE IF r.ok THEN [h EXCEPT !.phase = "tcp"]
    ELSE [h EXCEPT !.fails = Append(h.fails, r.delay)]

\* The effect of one attempt_connection call on the client, the timers and
\* the observation. The arguments are the state at the call: retry_count
\* (rc0), the connection (conn0), the pending timers (t0), the cycle shape,
\* attempt count and exhaustion flag (h0, n0, e0); out and j are what
\* client.connect does and the jitter drawn; live says whether the calling
\* thread runs a Qt event loop, so that the timer it creates can fire.
\*   client.connect returns: a fresh transport connection, CONNECT sent;
\*                           a session that was up is gone (clean session).
\*   client.connect raises:  paho has closed the old socket before trying.
Attempt(rc0, conn0, t0, h0, n0, e0, out, j, live, op, sig) ==
    LET r == attempt_connection(rc0, out, j)
        armed == r.delay > 0 /\ live
    IN  /\ r.called => n0 < MaxAttempts
        /\ armed => t0 < MaxTimers
        /\ retry_count' = r.retry_count
        /\ conn' = IF ~r.called THEN conn0 ELSE IF r.ok THEN "sent" ELSE "down"
        /\ brokerSubs' = IF r.called THEN {} ELSE brokerSubs
        /\ timers' = IF armed THEN t0 + 1 ELSE t0
        /\ attempts' = IF r.called THEN n0 + 1 ELSE n0
        /\ exhausted' = (e0 \/ ~r.called)
        /\ hist' = HistAttempt(h0, r)
        /\ last' = Did(op, TRUE,
                       IF ~r.called THEN "none"
                       ELSE IF r.ok THEN "ok" ELSE "raised",
                       {}, sig \cup r.signals)

\* start without the guard on running: every call restarts the cycle.
start_unguarded(out, j) ==
    /\ running' = TRUE
    /\ Attempt(0, conn, timers,
               [phase |-> "trying", fails |-> <<>>, subs |-> 0], 0, FALSE,
               out, j, TRUE, "start", {"status_update"})
    /\ loop' = TRUE
    /\ UNCHANGED <<subscribed_topics, pending_subscriptions>>

\* MQTTWorker.start with connect_with_retry: the guard on running, then
\* retry_count = 0, the first attempt_connection and client.loop_start().
start(out, j) ==
    IF running
    THEN /\ last' = Did("start", FALSE, "none", {}, {})
         /\ UNCHANGED <<workerVars, clientVars, timers, attempts, exhausted,
                        hist>>
    ELSE /\ running' = TRUE
         /\ Attempt(0, conn, timers,
                    [phase |-> "trying", fails |-> <<>>, subs |-> 0], 0, FALSE,
                    out, j, TRUE, "start", {"status_update"})
         /\ loop' = TRUE
         /\ UNCHANGED <<subscribed_topics, pending_subscriptions>>

\* MQTTWorker.stop: the guard on running, loop_stop, disconnect, the two
\* sets cleared, retry_count = 0, stopped emitted. Pending singleShot timers
\* are not touched: the code keeps no handle on them.
stop ==
    IF ~running
    THEN /\ last' = Did("stop", FALSE, "none", {}, {})
         /\ UNCHANGED <<workerVars, clientVars, timers, attempts, exhausted,
                        hist>>
    ELSE /\ running' = FALSE
         /\ loop' = FALSE
         /\ conn' = "down"
         /\ brokerSubs' = {}
         /\ subscribed_topics' = {}
         /\ pending_subscriptions' = {}
         /\ retry_count' = 0
         /\ exhausted' = FALSE
         /\ hist' = HistIdle
         /\ last' = Did("stop", TRUE, "none", {}, {"stopped"})
         /\ UNCHANGED <<timers, attempts>>

\* A singleShot timer fires in the worker thread's event loop and runs
\* attempt_connection. attempt_connection does not look at running.
timer_fired(out, j) ==
    /\ timers > 0
    /\ Attempt(retry_count, conn, timers - 1, hist, attempts, exhausted,
               out, j, TRUE, "timer", {})
    /\ UNCHANGED <<running, loop, subscribed_topics, pending_subscriptions>>

\* ------------------------------------------------------------------------
\* MQTTWorker: subscriptions and the connect callback
\* ------------------------------------------------------------------------

\* subscribe_to_topics with the except branch not queueing the topic.
subscribe_to_topics_unqueued(subs, pend, bsubs, up, F) ==
    LET todo == tags \ subs
    IN  [subscribed |-> subs \cup (todo \ F),
         pending    |-> pend,
         broker     |-> IF up THEN bsubs \cup (todo \ F) ELSE bsubs]

\* subscribe_to_topics, as a function of the two sets, of the broker's
\* session subscriptions, of whether the session is up, and of the set F of
\* topics whose client.subscribe call raises. A tag already in
\* subscribed_topics is skipped; a call that returns puts the topic in
\* subscribed_topics (paho returns MQTT_ERR_NO_CONN without raising when
\* there is no session: only an up session registers the subscription); a
\* call that raises puts the topic in pending_subscriptions.
subscribe_to_topics(subs, pend, bsubs, up, F) ==
    LET todo == tags \ subs
    IN  [subscribed |-> subs \cup (todo \ F),
         pending    |-> pend \cup (todo \cap F),
         broker     |-> IF up THEN bsubs \cup (todo \ F) ELSE bsubs]

\* on_connect(rc = 0), lines 84-96: subscribe_to_topics, connected emitted,
\* retry_count = 0, then every pending topic subscribed again and the
\* pending set cleared. F: the topics whose subscribe raises inside
\* subscribe_to_topics; P: the pending topics line 93 subscribes before one
\* of its calls raises (P = all of them: none raises). Line 93 is outside
\* any try: an exception leaves on_connect before line 96 and ends the
\* network loop thread that ran the callback.
on_connect_accepted(F, P) ==
    /\ loop
    /\ conn = "sent"
    /\ LET s == subscribe_to_topics(subscribed_topics, pending_subscriptions,
                                    brokerSubs, TRUE, F)
           done == (P = s.pending)
       IN  /\ P \subseteq s.pending
           /\ subscribed_topics' = s.subscribed \cup P
           /\ pending_subscriptions' = IF done THEN {} ELSE s.pending
           /\ brokerSubs' = s.broker \cup P
           /\ loop' = done
           /\ hist' = IF hist.phase = "tcp" /\ done
                      THEN [hist EXCEPT !.phase = "connected",
                                        !.subs = Min(2, @ + 1)]
                      ELSE HistOff
           /\ last' = [Did("on_connect", done, "none", F,
                           {"connected", "status_update"})
                           EXCEPT !.queued = pending_subscriptions]
    /\ conn' = "up"
    /\ retry_count' = 0
    /\ UNCHANGED <<running, timers, attempts, exhausted>>

\* on_connect(rc # 0), lines 97-102: connection_failed emitted, then
\* attempt_connection called at once, on the network loop thread, with
\* retry_count as it is. The broker has closed the refused connection. A
\* timer created on that thread may or may not be served (live).
on_connect_refused(out, j, live) ==
    /\ loop
    /\ conn = "sent"
    /\ Attempt(retry_count, "down", timers, HistOff, attempts, exhausted,
               out, j, live, "on_connect_refused",
               {"connection_failed", "status_update"})
    /\ UNCHANGED <<running, loop, subscribed_topics, pending_subscriptions>>

\* subscribe_to_topics called on its own (a public method of the worker).
subscribe_call(F) ==
    /\ F \subseteq (tags \ subscribed_topics)
    /\ LET s == subscribe_to_topics(subscribed_topics, pending_subscriptions,
                                    brokerSubs, conn = "up", F)
       IN  /\ subscribed_topics' = s.subscribed
           /\ pending_subscriptions' = s.pending
           /\ brokerSubs' = s.broker
    /\ hist' = IF hist.phase = "idle" THEN hist ELSE HistOff
    /\ last' = Did("subscribe_to_topics", TRUE, "none", F,
                   {"status_update"})
    /\ UNCHANGED <<running, retry_count, conn, loop, timers, attempts,
                   exhausted>>

\* ------------------------------------------------------------------------
\* Environment: broker, network loop, tag table
\* ------------------------------------------------------------------------

\* The established session is lost (broker restart, network drop). The
\* client was built with mqtt.Client(): a clean session, whose
\* subscriptions the broker forgets. The worker registers no on_disconnect
\* callback: none of its fields changes.
connection_lost ==
    /\ conn = "up"
    /\ conn' = "down"
    /\ brokerSubs' = {}
    /\ hist' = IF hist.phase = "idle" THEN hist ELSE HistOff
    /\ last' = Did("connection_lost", TRUE, "none", {}, {})
    /\ UNCHANGED <<workerVars, loop, timers, attempts, exhausted>>

\* The network loop started by loop_start() re-establishes the transport on
\* its own and sends CONNECT again; the answer arrives as on_connect.
loop_reconnect ==
    /\ loop
    /\ conn = "down"
    /\ conn' = "sent"
    /\ hist' = IF hist.phase = "idle" THEN hist ELSE HistOff
    /\ last' = Did("loop_reconnect", TRUE, "none", {}, {})
    /\ UNCHANGED <<workerVars, loop, brokerSubs, timers, attempts, exhausted>>

\* Database.add_tag: a tag name not yet in the project is inserted.
add_tag(t) ==
    /\ t \notin tags
    /\ tags' = tags \cup {t}

\* Database.delete_tag: the tag is removed from the tag table, and the
\* records of its topic are deleted from the timeview collection.
delete_tag(t) ==
    /\ t \in tags
    /\ tags' = tags \ {t}
    /\ timeview_collection' =
           SelectSeq(timeview_collection, LAMBDA r : r.topic # t)

\* ------------------------------------------------------------------------
\* Spec: the worker, its timers, the broker and the tag table
\* ------------------------------------------------------------------------

\* No Time View feature is displayed and nothing has been recorded: the
\* values TimeViewFeature.__init__ gives its fields on an empty repository.
NoFeature ==
    /\ session = [phase |-> "none", base |-> 0, frames |-> 0]
    /\ mqtt_tag = "none"
    /\ tag_combo = {}
    /\ is_saving = FALSE
    /\ frame_index = 0
    /\ filename_counter = 1
    /\ num_channels = 0
    /\ time_view_buffers = <<>>
    /\ time_view_timestamps = <<>>
    /\ window_size = DefaultWindow
    /\ deque_maxlen = buffer_size
    /\ toolbar_saving = FALSE
    /\ dashboard_is_saving = FALSE
    /\ appended = <<>>
    /\ seen = NoneSeen
    /\ timeview_collection = <<>>

\* DashboardWindow.__init__: no handler, not connected.
NoDashboard ==
    /\ mqtt_handler = "none"
    /\ mqtt_connected = FALSE
    /\ dash_pc = "idle"
    /\ status_pending = "none"

Init ==
    /\ running = FALSE
    /\ retry_count = 0
    /\ subscribed_topics = {}
    /\ pending_subscriptions = {}
    /\ conn = "down"
    /\ loop = FALSE
    /\ brokerSubs = {}
    /\ timers = 0
    /\ tags \in SUBSET Topics
    /\ last = Did("init", FALSE, "none", {}, {})
    /\ attempts = 0
    /\ exhausted = FALSE
    /\ hist = HistIdle
    /\ handler_running = FALSE
    /\ thread = "idle"
    /\ quit_requested = FALSE
    /\ ui_pc = "idle"
    /\ saw_malformed = FALSE
    /\ NoFeature
    /\ NoDashboard

Start ==
    /\ \E out \in {"ok", "raised"}, j \in JitterMs : start(out, j)
    /\ UNCHANGED <<tags, handlerVars, saw_malformed, featureVars,
                   dashboardVars, timeview_collection>>

Stop ==
    /\ stop
    /\ UNCHANGED <<tags, handlerVars, saw_malformed, featureVars,
                   dashboardVars, timeview_collection>>

TimerFired ==
    /\ \E out \in {"ok", "raised"}, j \in JitterMs : timer_fired(out, j)
    /\ UNCHANGED <<tags, handlerVars, saw_malformed, featureVars,
                   dashboardVars, timeview_collection>>

OnConnectAccepted ==
    /\ \E F \in SUBSET Topics, P \in SUBSET Topics :
          /\ F \subseteq (tags \ subscribed_topics)
          /\ on_connect_accepted(F, P)
    /\ UNCHANGED <<tags, handlerVars, saw_malformed, featureVars,
                   dashboardVars, timeview_collection>>

OnConnectRefused ==
    /\ \E out \in {"ok", "raised"}, j \in JitterMs, live \in BOOLEAN :
          on_connect_refused(out, j, live)
    /\ UNCHANGED <<tags, handlerVars, saw_malformed, featureVars,
                   dashboardVars, timeview_collection>>

SubscribeToTopics ==
    /\ \E F \in SUBSET Topics : subscribe_call(F)
    /\ UNCHANGED <<tags, handlerVars, saw_malformed, featureVars,
                   dashboardVars, timeview_collection>>

ConnectionLost ==
    /\ connection_lost
    /\ UNCHANGED <<tags, handlerVars, saw_malformed, featureVars,
                   dashboardVars, timeview_collection>>

LoopReconnect ==
    /\ loop_reconnect
    /\ UNCHANGED <<tags, handlerVars, saw_malformed, featureVars,
                   dashboardVars, timeview_collection>>

AddTag ==
    /\ \E t \in Topics : add_tag(t)
    /\ last' = Did("add_tag", TRUE, "none", {}, {})
    /\ UNCHANGED <<workerVars, clientVars, timers, attempts, exhausted, hist,
                   handlerVars, saw_malformed, featureVars, dashboardVars,
                   timeview_collection>>

DeleteTag ==
    /\ \E t \in Topics : delete_tag(t)
    /\ last' = Did("delete_tag", TRUE, "none", {}, {})
    /\ UNCHANGED <<workerVars, clientVars, timers, attempts, exhausted, hist,
                   handlerVars, saw_malformed, featureVars, dashboardVars>>

Next ==
    \/ Start
    \/ Stop
    \/ TimerFired
    \/ OnConnectAccepted
    \/ OnConnectRefused
    \/ SubscribeToTopics
    \/ ConnectionLost
    \/ LoopReconnect
    \/ AddTag
    \/ DeleteTag

Spec == Init /\ [][Next]_vars

\* ------------------------------------------------------------------------
\* SpecHandler: MQTTHandler on the UI thread, the worker on its QThread
\* ------------------------------------------------------------------------
\* MQTTHandler.__init__ moves the worker to the QThread and connects
\* thread.started to worker.start: worker.start runs on the new thread when
\* it begins. MQTTHandler.stop calls worker.stop() directly, on the UI
\* thread. The two threads interleave at the granularity of these calls.

\* MQTTHandler.start, lines 178-182. QThread.start() on a thread that has
\* finished (or never ran) starts it and clears an earlier quit request.
handler_start ==
    /\ ui_pc = "idle"
    /\ IF handler_running
       THEN /\ last' = Did("handler_start", FALSE, "none", {}, {})
            /\ UNCHANGED <<handler_running, thread, quit_requested>>
       ELSE /\ thread' = IF thread \in {"idle", "finished"}
                         THEN "started" ELSE thread
            /\ quit_requested' = IF thread \in {"idle", "finished"}
                                 THEN FALSE ELSE quit_requested
            /\ handler_running' = TRUE
            /\ last' = Did("handler_start", TRUE, "none", {}, {})
    /\ UNCHANGED <<workerVars, clientVars, timers, tags, attempts, exhausted,
                   hist, ui_pc, saw_malformed, featureVars, timeview_collection>>

\* MQTTHandler.stop, lines 185-186: the guard on MQTTHandler.running, then
\* worker.stop() on the UI thread. worker.stopped is connected to
\* on_worker_stopped (lines 198-199), which clears MQTTHandler.running.
handler_stop_worker ==
    /\ ui_pc = "idle"
    /\ IF handler_running
       THEN /\ stop
            /\ handler_running' = IF running THEN FALSE ELSE handler_running
            /\ ui_pc' = "quit"
       ELSE /\ last' = Did("handler_stop", FALSE, "none", {}, {})
            /\ UNCHANGED <<workerVars, clientVars, timers, attempts,
                           exhausted, hist, handler_running, ui_pc>>
    /\ UNCHANGED <<tags, thread, quit_requested, saw_malformed, featureVars,
                   timeview_collection>>

\* MQTTHandler.stop, line 187: thread.quit().
handler_stop_quit ==
    /\ ui_pc = "quit"
    /\ quit_requested' = TRUE
    /\ ui_pc' = "wait"
    /\ last' = Did("thread_quit", TRUE, "none", {}, {})
    /\ UNCHANGED <<workerVars, clientVars, timers, tags, attempts, exhausted,
                   hist, handler_running, thread, saw_malformed, featureVars,
                   timeview_collection>>

\* MQTTHandler.stop, lines 188-190: thread.wait() returns once the thread
\* is not running; then MQTTHandler.running = False and stop returns.
handler_stop_return ==
    /\ ui_pc = "wait"
    /\ thread \in {"idle", "finished"}
    /\ handler_running' = FALSE
    /\ ui_pc' = "idle"
    /\ last' = Did("handler_stop", TRUE, "none", {}, {})
    /\ UNCHANGED <<workerVars, clientVars, timers, tags, attempts, exhausted,
                   hist, thread, quit_requested, saw_malformed, featureVars,
                   timeview_collection>>

\* The QThread begins: it emits started, which runs worker.start() on the
\* new thread (line 176), and then enters its event loop.
thread_started(out, j) ==
    /\ thread = "started"
    /\ start(out, j)
    /\ thread' = "exec"
    /\ UNCHANGED <<tags, handler_running, quit_requested, ui_pc,
                   saw_malformed, featureVars, timeview_collection>>

\* The event loop of the QThread returns after quit(): the thread finishes.
\* Timers of a finished thread are not served.
thread_finished ==
    /\ thread = "exec"
    /\ quit_requested
    /\ thread' = "finished"
    /\ last' = Did("thread_finished", TRUE, "none", {}, {})
    /\ UNCHANGED <<workerVars, clientVars, timers, tags, attempts, exhausted,
                   hist, handler_running, quit_requested, ui_pc,
                   saw_malformed, featureVars, timeview_collection>>

HandlerStart == handler_start /\ UNCHANGED dashboardVars

HandlerStopWorker == handler_stop_worker /\ UNCHANGED dashboardVars

HandlerStopQuit == handler_stop_quit /\ UNCHANGED dashboardVars

HandlerStopReturn == handler_stop_return /\ UNCHANGED dashboardVars

ThreadStarted ==
    /\ \E out \in {"ok", "raised"}, j \in JitterMs : thread_started(out, j)
    /\ UNCHANGED dashboardVars

ThreadFinished == thread_finished /\ UNCHANGED dashboardVars

\* A retry timer is served only by the running event loop of the thread.
ThreadTimerFired ==
    /\ thread = "exec"
    /\ TimerFired

NextHandler ==
    \/ HandlerStart
    \/ HandlerStopWorker
    \/ HandlerStopQuit
    \/ HandlerStopReturn
    \/ ThreadStarted
    \/ ThreadFinished
    \/ ThreadTimerFired
    \/ OnConnectAccepted
    \/ OnConnectRefused
    \/ ConnectionLost
    \/ LoopReconnect

SpecHandler == Init /\ [][NextHandler]_vars

\* ------------------------------------------------------------------------
\* SpecMsg: the message callback of a connected worker
\* ------------------------------------------------------------------------

RECURSIVE SeqsUpTo(_, _)
\* The sequences over S of length at most n.
SeqsUpTo(S, n) ==
    IF n = 0 THEN {<<>>}
    ELSE LET shorter == SeqsUpTo(S, n - 1)
         IN  shorter \cup {Append(q, x) : q \in shorter, x \in S}

Payloads == SeqsUpTo(PayloadBytes, MaxPayloadBytes)

\* struct.unpack(f"{len(payload) // 2}H", payload): one unsigned 16-bit word
\* per byte pair, low byte first (native order of the target machines).
unpack(payload) ==
    [i \in 1..(Len(payload) \div 2) |->
        payload[2 * i - 1] + 256 * payload[2 * i]]

\* Database.update_tag_value: succeeds when the tag exists in the project.
update_tag_value(tag_name) == tag_name \in tags

\* on_message with only struct.error caught: the ValueError raised for an
\* odd or empty payload leaves the callback.
on_message_result_uncaught(topic, payload) ==
    IF Len(payload) % 2 # 0 \/ unpack(payload) = <<>>
    THEN [signals |-> {}, values |-> <<>>, raised |-> TRUE]
    ELSE IF update_tag_value(topic)
    THEN [signals |-> {"data_received"}, values |-> unpack(payload),
          raised |-> FALSE]
    ELSE [signals |-> {"error_occurred"}, values |-> <<>>, raised |-> FALSE]

\* on_message with the length test left out and the odd byte ignored.
on_message_result_truncating(topic, payload) ==
    IF unpack(payload) = <<>>
    THEN [signals |-> {"error_occurred"}, values |-> <<>>, raised |-> FALSE]
    ELSE IF update_tag_value(topic)
    THEN [signals |-> {"data_received"}, values |-> unpack(payload),
          raised |-> FALSE]
    ELSE [signals |-> {"error_occurred"}, values |-> <<>>, raised |-> FALSE]

\* What on_message makes of one message: the signals it emits, the values
\* it forwards with data_received, and whether an exception leaves the
\* callback (none does: lines 149-154 catch every Exception).
on_message_result(topic, payload) ==
    IF Len(payload) % 2 # 0
    THEN [signals |-> {"error_occurred"}, values |-> <<>>, raised |-> FALSE]
    ELSE IF unpack(payload) = <<>>
    THEN [signals |-> {"error_occurred"}, values |-> <<>>, raised |-> FALSE]
    ELSE IF update_tag_value(topic)
    THEN [signals |-> {"data_received"}, values |-> unpack(payload),
          raised |-> FALSE]
    ELSE [signals |-> {"error_occurred"}, values |-> <<>>, raised |-> FALSE]

\* The network loop delivers a message of a topic subscribed in the session
\* and runs on_message. An exception leaving the callback would end the
\* network loop thread, and with it the stream.
on_message(topic, payload) ==
    /\ loop
    /\ conn = "up"
    /\ topic \in brokerSubs
    /\ LET r == on_message_result(topic, payload)
       IN  /\ loop' = ~r.raised
           /\ last' = [op |-> "on_message", topic |-> topic,
                       payload |-> payload, signals |-> r.signals,
                       values |-> r.values]
    /\ saw_malformed' = (saw_malformed \/ Len(payload) % 2 # 0
                                       \/ Len(payload) = 0)
    /\ UNCHANGED <<workerVars, conn, brokerSubs, timers, tags, attempts,
                   exhausted, hist, handlerVars, featureVars, dashboardVars,
                   timeview_collection>>

\* A worker that start() and on_connect(rc = 0) have brought up with every
\* tag of the project subscribed.
InitMsg ==
    /\ running = TRUE
    /\ retry_count = 0
    /\ tags \in (SUBSET Topics) \ {{}}
    /\ subscribed_topics = tags
    /\ pending_subscriptions = {}
    /\ conn = "up"
    /\ loop = TRUE
    /\ brokerSubs = tags
    /\ timers = 0
    /\ last = Did("on_connect", TRUE, "none", {}, {"connected", "status_update"})
    /\ attempts = 1
    /\ exhausted = FALSE
    /\ hist = [phase |-> "connected", fails |-> <<>>, subs |-> 1]
    /\ handler_running = FALSE
    /\ thread = "idle"
    /\ quit_requested = FALSE
    /\ ui_pc = "idle"
    /\ saw_malformed = FALSE
    /\ NoFeature
    /\ NoDashboard

OnMessage == \E topic \in Topics, payload \in Payloads : on_message(topic, payload)

NextMsg ==
    \/ OnMessage
    \/ AddTag
    \/ DeleteTag

SpecMsg == InitMsg /\ [][NextMsg]_vars

\* ------------------------------------------------------------------------
\* Claims C1-C10: the connection manager
\* ------------------------------------------------------------------------

StrictlyIncreasing(q) == \A i \in 1..(Len(q) - 1) : q[i] < q[i + 1]

\* A payload on_message cannot turn into words: odd length, or empty.
Malformed(payload) == Len(payload) % 2 # 0 \/ Len(payload) = 0

\* C1: in the cycle begun by start() the worker calls client.connect at most
\* max_retries times, whatever way the attempts fail (a refusal in
\* on_connect included), and once the bound is exhausted and
\* connection_failed is emitted no operation calls client.connect until the
\* next start().
C1_AttemptsBounded ==
    /\ attempts <= max_retries
    /\ exhausted => last.connect = "none"

\* C2: a start() called after the retry bound was exhausted, with no stop()
\* in between, begins a new cycle: it makes a connection attempt.
C2_StartAfterExhaustionRetries ==
    [][(exhausted /\ last'.op = "start") => last'.connect # "none"]_vars

\* C3: after a stop() that tore the worker down, both subscription sets are
\* empty, stopped was emitted and no retry timer is left pending; and while
\* the worker is stopped no attempt_connection reaches client.connect.
C3_StopIsCompleteTeardown ==
    /\ (last.op = "stop" /\ last.eff) =>
          /\ subscribed_topics = {}
          /\ pending_subscriptions = {}
          /\ "stopped" \in last.signals
          /\ timers = 0
    /\ ~running => last.connect = "none"

\* C4: when MQTTHandler.stop() has returned, the worker is not running and
\* its network loop is stopped, for every interleaving of the UI thread
\* with the worker thread.
C4_HandlerStopLeavesNoWorker ==
    (last.op = "handler_stop" /\ last.eff) => (~running /\ ~loop)

\* C5: when on_connect(rc = 0) has run to its end with every subscribe call
\* returning, every tag of the project is subscribed in the live broker
\* session, on the first connection and on every reconnection.
C5_ConnectSubscribesEveryTag ==
    (last.op = "on_connect" /\ last.eff /\ last.failed = {}) =>
        tags \subseteq brokerSubs

C9_StartIsIdempotent ==
    [][(running /\ last'.op = "start") =>
          /\ last'.connect = "none"
          /\ UNCHANGED <<workerVars, clientVars, timers, attempts, exhausted,
                         hist>>]_vars

\* A start() in the middle of a retry cycle that changed nothing.
C9_Witness ==
    /\ last.op = "start"
    /\ ~last.eff
    /\ retry_count > 0
    /\ timers > 0

\* C9, MQTTHandler.start(): a call while MQTTHandler.running changes
\* nothing (checked under SpecHandler).
C9_HandlerStartIsIdempotent ==
    [][(handler_running /\ last'.op = "handler_start") =>
          UNCHANGED <<workerVars, clientVars, timers, attempts, exhausted,
                      hist, handlerVars>>]_vars

IndexBase == 65535

\* Number of header words: split_and_store_values reads values[0..9] and
\* takes values[10:] as the samples.
HeaderWords == 10

\* One more than the largest value an unsigned 16-bit word holds.
WordLimit == 65536

\* MQTTPublisher.__init__: self.sample_rate = 4096
sample_rate == 4096

\* Frame indexes put through the codec: around the multiples of IndexBase
\* and of WordLimit, and the largest representable here.
FrameIndexes ==
    {0, 1, 198, 65534, 65535, 65536, 65537, 131069, 131070, 131071, 131072,
     2147418112, 2147483647}

\* Channel counts of the frames put through the codec.
CodecChannels == {1, 4, 8}

\* Most samples per channel in a frame put through the codec.
MaxCodecSamples == 1

\* The n samples of a frame: distinct values, so that a sample moved to
\* another position or channel shows.
SampleWords(n) == [i \in 1..n |-> 16390 + i]

\* publish_message, lines 55-65: the ten header words, then the
\* interleaved samples.
encode_words(f) ==
    <<f.frame_index % IndexBase, f.frame_index \div IndexBase, f.channel,
      sample_rate, 16, sample_rate \div f.channel, 0, 0, 0, 0>> \o f.samples

\* struct.pack(f"{n}H", *message_values), line 68: two bytes per word, low
\* byte first; a word outside 0..65535 makes struct.pack raise.
pack(words) ==
    [i \in 1..(2 * Len(words)) |->
        IF i % 2 = 1 THEN words[(i + 1) \div 2] % 256
        ELSE words[i \div 2] \div 256]

\* Every word fits the H format.
Packable(words) == \A i \in 1..Len(words) : words[i] \in 0..(WordLimit - 1)

\* str(values[k]): the decimal string of a word, kept apart from the number.
str(v) == <<"str", v>>

\* The decoder with the frame index read in base 65536.
decode_header_base16(values) ==
    [frame_index |-> values[1] + values[2] * WordLimit,
     number_of_channels |-> values[3],
     sampling_rate |-> values[4],
     sampling_size |-> values[5],
     message_frequency |-> values[6],
     slots |-> <<str(values[7]), str(values[8]), str(values[9]),
                 str(values[10])>>,
     plot_values |-> SubSeq(values, HeaderWords + 1, Len(values))]

\* split_and_store_values, lines 457-467: the header fields and the
\* samples of a word list of at least ten words.
decode_header(values) ==
    [frame_index |-> values[1] + values[2] * IndexBase,
     number_of_channels |-> values[3],
     sampling_rate |-> values[4],
     sampling_size |-> values[5],
     message_frequency |-> values[6],
     slots |-> <<str(values[7]), str(values[8]), str(values[9]),
                 str(values[10])>>,
     plot_values |-> SubSeq(values, HeaderWords + 1, Len(values))]

\* The frames put through the codec.
CodecFrames ==
    {[frame_index |-> fi, channel |-> c, samples |-> SampleWords(c * n)] :
        fi \in FrameIndexes, c \in CodecChannels, n \in 0..MaxCodecSamples}

\* The publisher builds the header and the sample list of a frame.
codec_encode ==
    /\ last.op = "frame"
    /\ last' = [op |-> "encoded", frame |-> last.frame,
                words |-> encode_words(last.frame)]

\* The words are packed, published, unpacked by on_message and decoded by
\* split_and_store_values.
codec_decode ==
    /\ last.op = "encoded"
    /\ Packable(last.words)
    /\ last' = [op |-> "decoded", frame |-> last.frame, words |-> last.words,
                values |-> unpack(pack(last.words)),
                decoded |-> decode_header(unpack(pack(last.words)))]

\* The publisher moves on to another frame.
codec_next(f) ==
    /\ last.op = "decoded"
    /\ last' = [op |-> "frame", frame |-> f]

InitCodec ==
    /\ running = FALSE
    /\ retry_count = 0
    /\ subscribed_topics = {}
    /\ pending_subscriptions = {}
    /\ conn = "down"
    /\ loop = FALSE
    /\ brokerSubs = {}
    /\ timers = 0
    /\ tags = {}
    /\ last \in {[op |-> "frame", frame |-> f] : f \in CodecFrames}
    /\ attempts = 0
    /\ exhausted = FALSE
    /\ hist = HistIdle
    /\ handler_running = FALSE
    /\ thread = "idle"
    /\ quit_requested = FALSE
    /\ ui_pc = "idle"
    /\ saw_malformed = FALSE
    /\ NoFeature
    /\ NoDashboard

CodecUnchanged ==
    UNCHANGED <<workerVars, clientVars, timers, tags, attempts, exhausted,
                hist, handlerVars, saw_malformed, featureVars, dashboardVars,
                timeview_collection>>

CodecEncode == codec_encode /\ CodecUnchanged

CodecDecode == codec_decode /\ CodecUnchanged

CodecNext == (\E f \in CodecFrames : codec_next(f)) /\ CodecUnchanged

NextCodec ==
    \/ CodecEncode
    \/ CodecDecode
    \/ CodecNext

SpecCodec == InitCodec /\ [][NextCodec]_vars

\* ------------------------------------------------------------------------
\* Time View: ring buffers, recording gate, repository
\* ------------------------------------------------------------------------

\* Most records in the timeview collection, and most frames counted in one
\* session, under SpecRec.
MaxRecords == 2

\* Most records in the timeview collection under SpecView.
MaxViewRecords == 1

\* Largest filename_counter reached.
MaxFiles == 2

\* Channel count and number of sample words of the frames sent to the Time
\* View under SpecView: aligned ones, one that is not (2 channels, 1 word),
\* one with a channel count of 0.
ViewShapes == {<<0, 1>>, <<1, 1>>, <<1, 2>>, <<2, 1>>, <<2, 2>>, <<2, 4>>}

\* The same under SpecRec: one aligned frame shape, one that is not.
RecShapes == {<<1, 1>>, <<2, 1>>}

\* Frame indexes of the frames sent to the Time View.
ViewFrameIndexes == {0, 1}

\* The recording session as observed from outside:
\*   phase  "none"    no session since the feature was built
\*          "open"    start_saving ran; since then only valid frames of the
\*                    selected tag arrived and every write succeeded
\*          "closed"  ... and stop_saving ended it
\*          "off"     anything else happened
\*   base   number of records in the collection when the session began
\*   frames number of valid frames of the selected tag since then
NoSession == [phase |-> "none", base |-> 0, frames |-> 0]

SessionOff == [phase |-> "off", base |-> 0, frames |-> 0]

Max(S) == CHOOSE m \in S : \A x \in S : x <= m

\* f"data{counter}": the prefix and the number, which
\* re.match(r"data(\d+)", filename) gives back.
Filename(counter) == <<"data", counter>>

\* get_next_filename_counter: the largest numeric suffix among the
\* filenames of the collection (0 if there is none), plus 1.
get_next_filename_counter(collection) ==
    Max({collection[i].filename[2] : i \in 1..Len(collection)} \cup {0}) + 1

\* Database.save_timeview_message: insert_one under a fresh _id; the
\* indexes of the collection are not unique, so nothing is refused for
\* being there already. ok = FALSE: the project lookup or the insert fails.
save_timeview_message(collection, record, ok) ==
    [ok |-> ok,
     collection |-> IF ok THEN Append(collection, record) ELSE collection]

\* An append that a full deque refuses.
deque_append_refusing(buf, x, maxlen) ==
    IF Len(buf) >= maxlen THEN buf ELSE Append(buf, x)

\* append to a deque of the given maxlen: the oldest entry leaves a full
\* deque (and a deque of maxlen 0 stays empty).
deque_append(buf, x, maxlen) ==
    IF maxlen = 0 THEN buf
    ELSE IF Len(buf) >= maxlen THEN Append(Tail(buf), x)
    ELSE Append(buf, x)

\* int(rate * window), the capacity a window of the given length (in half
\* seconds) needs at the given rate, in entries of the model's buffers.
capacity(rate, window) ==
    (rate * window * buffer_size) \div (data_rate * DefaultWindow)

\* A deque that keeps the first n entries of what it is built from.
deque_first(iterable, n) == SubSeq(iterable, 1, Min(n, Len(iterable)))

\* deque(iterable, maxlen = n): the entries are appended one by one, so the
\* last n of them stay.
deque(iterable, n) ==
    SubSeq(iterable, Len(iterable) - Min(n, Len(iterable)) + 1, Len(iterable))

\* One timestamp stored for the whole frame.
store_timestamps_once(ts, k, num_samples, maxlen) ==
    IF num_samples = 0 THEN ts ELSE deque_append(ts, 0, maxlen)

RECURSIVE store_timestamps(_, _, _, _)
\* Line 486: after the values of sample k have been appended to the
\* channel buffers, its timestamp (the time of arrival plus
\* (k - 1) / data_rate) is appended to time_view_timestamps.
store_timestamps(ts, k, num_samples, maxlen) ==
    IF k > num_samples THEN ts
    ELSE store_timestamps(deque_append(ts, k - 1, maxlen), k + 1,
                          num_samples, maxlen)

\* initialize_plot that keeps the buffers it finds, as many as it needs.
initialize_plot_keeping(st, n) ==
    [st EXCEPT !.num_channels = n,
               !.maxlen = capacity(data_rate, window_size),
               !.buffers = [j \in 1..n |->
                               IF j <= Len(st.buffers) THEN st.buffers[j]
                               ELSE <<>>]]

\* initialize_plot, lines 419-422: num_channels is set, buffer_size is
\* computed again from data_rate and window_size, and num_channels empty
\* deques and an empty timestamp deque of that maxlen replace the old ones.
initialize_plot(st, n) ==
    [st EXCEPT !.num_channels = n,
               !.maxlen = capacity(data_rate, window_size),
               !.buffers = [j \in 1..n |-> <<>>],
               !.timestamps = <<>>]

\* The handler of line 528 also dropping what the feature holds.
processing_error_resetting(st) ==
    [st EXCEPT !.num_channels = 0, !.buffers = <<>>, !.timestamps = <<>>,
               !.report = "exception", !.surfaced = {"console"}]

\* Lines 528-530: an exception raised while the frame is processed is
\* logged and written to the console; what was done before it stays.
processing_error(st) ==
    [st EXCEPT !.report = "exception", !.surfaced = {"console"}]

RECURSIVE store_samples_blocks(_, _, _, _, _)
\* The samples stored channel after channel instead of round-robin.
store_samples_blocks(bufs, plot_values, n, i, maxlen) ==
    IF i + n - 1 > Len(plot_values) THEN bufs
    ELSE store_samples_blocks(
             [j \in 1..n |->
                 deque_append(bufs[j],
                     plot_values[(j - 1) * (Len(plot_values) \div n)
                                 + (i - 1) \div n + 1], maxlen)],
             plot_values, n, i + n, maxlen)

RECURSIVE store_samples(_, _, _, _, _)
\* Lines 480-486: for each group of n values starting at i, value j of the
\* group is appended to buffer j. A last group with fewer than n values
\* raises IndexError before anything of it is appended.
store_samples(bufs, plot_values, n, i, maxlen) ==
    IF i + n - 1 > Len(plot_values) THEN bufs
    ELSE store_samples(
             [j \in 1..n |->
                 deque_append(bufs[j], plot_values[i + j - 1], maxlen)],
             plot_values, n, i + n, maxlen)

\* The alignment test left out.
misaligned_never(plot_values, n) == FALSE

\* Line 468: len(plot_values) % number_of_channels != 0.
misaligned(plot_values, n) == Len(plot_values) % n # 0

\* A failed write that leaves the session recording.
save_failed_still_saving(st) ==
    [st EXCEPT !.saves = 1, !.report = "save_failed",
               !.surfaced = {"console", "dialog"}]

\* Lines 516-526: the failure is written to the console, is_saving is
\* cleared, the buttons and labels are reset, a critical dialog is shown.
save_failed(st) ==
    [st EXCEPT !.is_saving = FALSE, !.saves = 1, !.report = "save_failed",
               !.surfaced = {"console", "dialog"}]

\* split_and_store_values on the word list of one message; ok: whether a
\* write to the repository would succeed. The result: the feature's fields
\* and the collection afterwards, the number of save_timeview_message
\* calls, what became of the frame (report) and where a failure was shown.
split_and_store_values(values, ok) ==
    LET st == [num_channels |-> num_channels,
               buffers |-> time_view_buffers,
               timestamps |-> time_view_timestamps,
               maxlen |-> deque_maxlen,
               is_saving |-> is_saving,
               frame_index |-> frame_index,
               collection |-> timeview_collection,
               saves |-> 0, report |-> "none", surfaced |-> {}]
    IN  IF Len(values) < HeaderWords
        THEN [st EXCEPT !.report = "insufficient", !.surfaced = {"console"}]
        ELSE
        LET h == decode_header(values)
            n == h.number_of_channels
        IN  IF n = 0
            \* ZeroDivisionError at line 468, caught at line 528
            THEN processing_error(st)
            ELSE IF misaligned(h.plot_values, n)
            THEN [st EXCEPT !.report = "unexpected", !.surfaced = {"console"}]
            ELSE
            \* line 473; self.axes is empty exactly while num_channels is 0
            LET st0 == IF n # num_channels THEN initialize_plot(st, n) ELSE st
                bufs1 == store_samples(st0.buffers, h.plot_values, n, 1,
                                       st0.maxlen)
                ts1 == store_timestamps(st0.timestamps, 1,
                                        Len(h.plot_values) \div n, st0.maxlen)
                stored == [st0 EXCEPT !.buffers = bufs1, !.timestamps = ts1,
                                      !.report = "stored"]
                record == [topic |-> mqtt_tag,
                           filename |-> Filename(filename_counter),
                           frameIndex |-> h.frame_index]
                w == save_timeview_message(timeview_collection, record, ok)
            IN  IF Len(h.plot_values) % n # 0
                \* IndexError in the last group, caught at line 528
                THEN processing_error(stored)
                ELSE IF ~is_saving THEN stored
                ELSE IF w.ok
                THEN [stored EXCEPT !.frame_index = frame_index + 1,
                                    !.collection = w.collection,
                                    !.saves = 1, !.report = "saved"]
                ELSE save_failed(stored)

\* What a message that reaches no frame processing leaves behind.
not_delivered ==
    [num_channels |-> num_channels, buffers |-> time_view_buffers,
     timestamps |-> time_view_timestamps, maxlen |-> deque_maxlen,
     is_saving |-> is_saving, frame_index |-> frame_index,
     collection |-> timeview_collection,
     saves |-> 0, report |-> "none", surfaced |-> {}]

\* The session observation after a message with result r for the selected
\* tag (delivered) or not.
SessionAfterMessage(delivered, r) ==
    IF session.phase # "open" \/ ~delivered THEN session
    ELSE IF r.report = "saved"
    THEN [session EXCEPT !.frames = @ + 1]
    ELSE SessionOff

\* One message from the broker to the Time View: on_message unpacks it and
\* emits data_received or error_occurred; DashboardWindow.on_data_received
\* hands the values to every feature instance (current_feature is never
\* set, so once each); TimeViewFeature.on_data_received drops the values
\* of a tag other than the selected one and calls split_and_store_values.
view_message(topic, payload, ok) ==
    /\ loop
    /\ conn = "up"
    /\ topic \in brokerSubs
    /\ \E m \in {on_message_result(topic, payload)} :
       \E delivered \in {"data_received" \in m.signals /\ topic = mqtt_tag} :
       \E r \in {IF delivered THEN split_and_store_values(m.values, ok)
                 ELSE not_delivered} :
          /\ num_channels' = r.num_channels
          /\ time_view_buffers' = r.buffers
          /\ time_view_timestamps' = r.timestamps
          /\ deque_maxlen' = r.maxlen
          /\ is_saving' = r.is_saving
          /\ frame_index' = r.frame_index
          /\ timeview_collection' = r.collection
          /\ session' = SessionAfterMessage(delivered, r)
          /\ last' = [op |-> "on_message",
                      bytes |-> Len(payload), words |-> Len(m.values),
                      channels |-> IF Len(m.values) >= HeaderWords
                                   THEN m.values[3] ELSE 0,
                      rate |-> IF Len(m.values) >= HeaderWords
                               THEN m.values[4] ELSE 0,
                      plot |-> IF Len(m.values) >= HeaderWords
                               THEN SubSeq(m.values, HeaderWords + 1,
                                           Len(m.values))
                               ELSE <<>>,
                      signals |-> m.signals, delivered |-> delivered,
                      report |-> r.report, saves |-> r.saves,
                      surfaced |-> r.surfaced]
    /\ UNCHANGED <<mqtt_tag, tag_combo, filename_counter, toolbar_saving,
                   dashboard_is_saving>>

\* TimeViewFeature.start_saving: refused without a valid tag; otherwise
\* is_saving = True and frame_index = 0. There is no test of is_saving.
\* The filename is f"data{filename_counter}", with the counter as it is.
start_saving ==
    IF mqtt_tag = "none"
    THEN /\ UNCHANGED <<is_saving, frame_index, session>>
         /\ last' = [op |-> "start_saving", eff |-> FALSE]
    ELSE /\ is_saving' = TRUE
         /\ frame_index' = 0
         /\ session' = IF is_saving THEN SessionOff
                       ELSE [phase |-> "open",
                             base |-> Len(timeview_collection), frames |-> 0]
         /\ last' = [op |-> "start_saving", eff |-> TRUE]

\* TimeViewFeature.stop_saving: nothing unless is_saving; otherwise
\* is_saving = False and filename_counter += 1.
stop_saving ==
    IF ~is_saving
    THEN /\ UNCHANGED <<is_saving, filename_counter, session>>
         /\ last' = [op |-> "stop_saving", eff |-> FALSE]
    ELSE /\ filename_counter < MaxFiles
         /\ is_saving' = FALSE
         /\ filename_counter' = filename_counter + 1
         /\ session' = IF session.phase = "open"
                       THEN [session EXCEPT !.phase = "closed"]
                       ELSE SessionOff
         /\ last' = [op |-> "stop_saving", eff |-> TRUE]

\* Line 343 of start_saving: parent.is_saving = True, once the tag has
\* been found valid.
parent_after_start == IF mqtt_tag = "none" THEN dashboard_is_saving ELSE TRUE

\* Line 363 of stop_saving: parent.is_saving = False, if it was saving.
parent_after_stop == IF is_saving THEN FALSE ELSE dashboard_is_saving

\* What the buttons and toolbar actions of a recording leave alone.
buffers_unchanged ==
    UNCHANGED <<mqtt_tag, tag_combo, num_channels, time_view_buffers,
                time_view_timestamps, deque_maxlen, timeview_collection>>

\* The Start Saving button of the feature, enabled while not saving.
start_button ==
    /\ ~is_saving
    /\ start_saving
    /\ dashboard_is_saving' = parent_after_start
    /\ buffers_unchanged
    /\ UNCHANGED <<filename_counter, toolbar_saving>>

\* The Stop Saving button of the feature, enabled while saving.
stop_button ==
    /\ is_saving
    /\ stop_saving
    /\ dashboard_is_saving' = parent_after_stop
    /\ buffers_unchanged
    /\ UNCHANGED <<frame_index, toolbar_saving>>

\* DashboardWindow.start_saving, the sub-toolbar action: enabled as the
\* toolbar was last rebuilt (not is_saving of the dashboard then); calls
\* start_saving of the feature, sets is_saving and rebuilds the toolbar.
dashboard_start_saving ==
    /\ ~toolbar_saving
    /\ start_saving
    /\ dashboard_is_saving' = TRUE
    /\ toolbar_saving' = TRUE
    /\ buffers_unchanged
    /\ UNCHANGED filename_counter

\* DashboardWindow.stop_saving, the sub-toolbar action.
dashboard_stop_saving ==
    /\ toolbar_saving
    /\ stop_saving
    /\ dashboard_is_saving' = FALSE
    /\ toolbar_saving' = FALSE
    /\ buffers_unchanged
    /\ UNCHANGED frame_index

\* setup_time_view_plot, run when another tag is chosen in tag_combo: the
\* buffers are dropped and the timestamps cleared, is_saving, frame_index
\* and the dashboard's is_saving are cleared; filename_counter stays.
setup_time_view_plot(tag_name) ==
    /\ tag_name \in tag_combo
    /\ tag_name # mqtt_tag
    /\ mqtt_tag' = tag_name
    /\ time_view_buffers' = <<>>
    /\ time_view_timestamps' = <<>>
    /\ num_channels' = 0
    /\ is_saving' = FALSE
    /\ dashboard_is_saving' = FALSE
    /\ frame_index' = 0
    /\ session' = IF session.phase = "open" THEN SessionOff ELSE session
    /\ last' = [op |-> "setup_time_view_plot", eff |-> TRUE]
    /\ UNCHANGED <<tag_combo, filename_counter, toolbar_saving,
                   deque_maxlen, timeview_collection>>

\* display_features builds a new TimeViewFeature (and rebuilds the
\* toolbar with is_saving = False): __init__ computes filename_counter from
\* the collection; initUI lists the tags and selects the first one (first:
\* the tag the tag table lists first).
feature_init(first) ==
    /\ first \in tags
    /\ mqtt_tag' = first
    /\ tag_combo' = tags
    /\ is_saving' = FALSE
    /\ frame_index' = 0
    /\ filename_counter' = get_next_filename_counter(timeview_collection)
    /\ num_channels' = 0
    /\ time_view_buffers' = <<>>
    /\ time_view_timestamps' = <<>>
    /\ deque_maxlen' = capacity(data_rate, DefaultWindow)
    /\ toolbar_saving' = FALSE
    /\ dashboard_is_saving' = FALSE
    /\ session' = NoSession
    /\ last' = [op |-> "feature_init", eff |-> TRUE]
    /\ UNCHANGED timeview_collection

\* The word lists of the frames of the given shapes and frame indexes.
FrameWords(shapes) ==
    {<<fi % IndexBase, fi \div IndexBase, sh[1], sample_rate, 16, 1024,
       0, 0, 0, 0>> \o SampleWords(sh[2]) :
        fi \in ViewFrameIndexes, sh \in shapes}

\* The payloads sent under SpecView: the packed frames, two word lists
\* shorter than a header, a header and a frame with one byte more, and the
\* empty payload.
ViewPayloads ==
    {pack(w) : w \in FrameWords(ViewShapes)}
    \cup {pack(<<1>>), pack(<<0, 0, 1, sample_rate, 16, 1024, 0, 0, 0>>)}
    \cup {Append(pack(w), 1) : w \in {<<>>, <<0, 0, 1, sample_rate, 16, 1024,
                                          0, 0, 0, 0, 16391>>}}
    \cup {<<>>}

\* The payloads sent under SpecRec.
RecPayloads ==
    {pack(w) : w \in FrameWords(RecShapes)} \cup {pack(<<1>>), <<1>>}

\* A connected worker with every tag subscribed, and a Time View feature
\* just built on an empty repository.
InitView ==
    /\ running = TRUE
    /\ retry_count = 0
    /\ tags = Topics
    /\ subscribed_topics = tags
    /\ pending_subscriptions = {}
    /\ conn = "up"
    /\ loop = TRUE
    /\ brokerSubs = tags
    /\ timers = 0
    /\ last = [op |-> "feature_init", eff |-> TRUE]
    /\ attempts = 1
    /\ exhausted = FALSE
    /\ hist = [phase |-> "connected", fails |-> <<>>, subs |-> 1]
    /\ handler_running = FALSE
    /\ thread = "idle"
    /\ quit_requested = FALSE
    /\ ui_pc = "idle"
    /\ saw_malformed = FALSE
    /\ mqtt_tag \in tags
    /\ tag_combo = tags
    /\ is_saving = FALSE
    /\ frame_index = 0
    /\ filename_counter = 1
    /\ num_channels = 0
    /\ time_view_buffers = <<>>
    /\ time_view_timestamps = <<>>
    /\ window_size = DefaultWindow
    /\ deque_maxlen = capacity(data_rate, DefaultWindow)
    /\ toolbar_saving = FALSE
    /\ dashboard_is_saving = FALSE
    /\ appended = <<>>
    /\ seen = NoneSeen
    /\ session = NoSession
    /\ timeview_collection = <<>>
    /\ mqtt_handler = "handler"
    /\ mqtt_connected = TRUE
    /\ dash_pc = "idle"
    /\ status_pending = "none"

ViewUnchanged ==
    UNCHANGED <<workerVars, clientVars, timers, tags, attempts, exhausted,
                hist, handlerVars, saw_malformed, dashboardVars, window_size>>

\* A write that cannot succeed or fail is not drawn twice.
WriteOutcomes == IF is_saving THEN BOOLEAN ELSE {TRUE}

\* The observations of SpecBuf are not kept under SpecView and SpecRec.
GhostUnchanged == UNCHANGED <<appended, seen>>

ViewMessage ==
    /\ \E topic \in Topics, payload \in ViewPayloads, ok \in WriteOutcomes :
          view_message(topic, payload, ok)
    /\ Len(timeview_collection') <= MaxViewRecords
    /\ ViewUnchanged
    /\ GhostUnchanged

RecMessage ==
    /\ \E topic \in Topics, payload \in RecPayloads, ok \in WriteOutcomes :
          view_message(topic, payload, ok)
    /\ Len(timeview_collection') <= MaxRecords
    /\ frame_index' <= MaxRecords
    /\ ViewUnchanged
    /\ GhostUnchanged

StartButton == start_button /\ ViewUnchanged /\ GhostUnchanged

StopButton == stop_button /\ ViewUnchanged /\ GhostUnchanged

DashboardStartSaving ==
    dashboard_start_saving /\ ViewUnchanged /\ GhostUnchanged

DashboardStopSaving ==
    dashboard_stop_saving /\ ViewUnchanged /\ GhostUnchanged

\* A tag switch drops the buffers, and with them what was appended to them.
SelectTag ==
    /\ \E t \in Topics : setup_time_view_plot(t)
    /\ appended' = <<>>
    /\ UNCHANGED seen
    /\ ViewUnchanged

FeatureInit ==
    /\ \E t \in Topics : feature_init(t)
    /\ appended' = <<>>
    /\ seen' = NoneSeen
    /\ ViewUnchanged

\* Messages of every shape to the Time View, with the buttons of the
\* feature and the tag selection.
NextView ==
    \/ ViewMessage
    \/ StartButton
    \/ StopButton
    \/ SelectTag

SpecView == InitView /\ [][NextView]_vars

\* Recording sessions: frames, both pairs of start and stop controls, tag
\* selection, and the feature built anew.
NextRec ==
    \/ RecMessage
    \/ StartButton
    \/ StopButton
    \/ DashboardStartSaving
    \/ DashboardStopSaving
    \/ SelectTag
    \/ FeatureInit

SpecRec == InitView /\ [][NextRec]_vars

\* ------------------------------------------------------------------------
\* Claims C11-C20: codec, ring buffers, recording, repository
\* ------------------------------------------------------------------------

\* C11: a payload with an odd number of bytes makes on_message emit
\* error_occurred and no data_received, and leaves the channel buffers, the
\* channel count and the timeview collection as they were.
C11_OddPayloadRejected ==
    [][(last'.op = "on_message" /\ last'.bytes % 2 = 1) =>
          /\ last'.signals = {"error_occurred"}
          /\ ~last'.delivered
          /\ UNCHANGED <<time_view_buffers, num_channels,
                         timeview_collection>>]_vars

\* An odd payload arrived while recording, with samples in the buffers.
C11_Witness ==
    /\ last.op = "on_message"
    /\ last.bytes % 2 = 1
    /\ last.bytes > 2 * HeaderWords
    /\ is_saving
    /\ num_channels > 0
    /\ time_view_buffers[1] # <<>>

\* C12: a payload of fewer than 10 words is refused as a frame: on_message
\* does not forward it with data_received, and the channel buffers, the
\* channel count and the timeview collection stay as they were.
C12_ShortPayloadNotForwarded ==
    [][(last'.op = "on_message" /\ last'.bytes % 2 = 0
          /\ last'.words > 0 /\ last'.words < HeaderWords) =>
          /\ "data_received" \notin last'.signals
          /\ UNCHANGED <<time_view_buffers, num_channels,
                         timeview_collection>>]_vars

\* C12, the part the Time View keeps: a payload of fewer than 10 words
\* changes no channel buffer and no record.
C12_ShortPayloadStoresNothing ==
    [][(last'.op = "on_message" /\ last'.words < HeaderWords) =>
          UNCHANGED <<time_view_buffers, num_channels,
                      timeview_collection>>]_vars

\* C13: a frame whose number of sample words is not a multiple of its
\* channel count (a channel count of 0 included) appends nothing to any
\* channel buffer, does not reshape the buffers and makes no write to the
\* repository, also while recording.
C13_MisalignedFrameStoresNothing ==
    [][(/\ last'.op = "on_message"
        /\ last'.delivered
        /\ last'.words >= HeaderWords
        /\ \/ last'.channels = 0 /\ last'.plot # <<>>
           \/ last'.channels > 0 /\ Len(last'.plot) % last'.channels # 0) =>
          /\ last'.saves = 0
          /\ UNCHANGED <<time_view_buffers, num_channels,
                         timeview_collection, frame_index>>]_vars

\* A misaligned frame with a channel count above 0 reached the Time View
\* while recording, with samples in the buffers.
C13_Witness ==
    /\ last.op = "on_message"
    /\ last.delivered
    /\ last.channels > 0
    /\ Len(last.plot) % last.channels # 0
    /\ is_saving
    /\ num_channels > 0
    /\ time_view_buffers[1] # <<>>

SessionRecords ==
    SubSeq(timeview_collection, session.base + 1, Len(timeview_collection))

\* C15: start_saving called while a session is active changes neither the
\* filename of the session (filename_counter) nor its sequence counter
\* (frame_index).
C15_SecondStartIsNoOp ==
    [][(is_saving /\ last'.op = "start_saving") =>
          UNCHANGED <<filename_counter, frame_index>>]_vars

\* C16: when a recording session starts, its filename counter is the
\* largest numeric suffix among the filenames of the collection plus 1, so
\* no record of the collection has the session's filename.
C16_FilenameIsNextFree ==
    [][(~is_saving /\ is_saving') =>
          /\ filename_counter' = get_next_filename_counter(timeview_collection')
          /\ \A i \in 1..Len(timeview_collection') :
                timeview_collection'[i].filename
                    # Filename(filename_counter')]_vars

\* C16, its consequence alone: a session that starts never takes a
\* filename under which the collection already holds records.
C16_NoFilenameReuse ==
    [][(~is_saving /\ is_saving') =>
          \A i \in 1..Len(timeview_collection') :
              timeview_collection'[i].filename
                  # Filename(filename_counter')]_vars

\* C17: a session of start_saving, N valid frames of the selected tag with
\* every write succeeding, and stop_saving has written exactly N records,
\* all under one filename, and the k-th of them carries sequence number
\* k - 1 (frameIndex is the one number a record carries).
C17_SessionRecordsSequenced ==
    session.phase = "closed" =>
        /\ Len(SessionRecords) = session.frames
        /\ \A i \in 1..Len(SessionRecords) :
              /\ SessionRecords[i].filename = SessionRecords[1].filename
              /\ SessionRecords[i].frameIndex = i - 1

\* C17, the part the code keeps: the session has written exactly N records
\* under one filename, and its counter frame_index stands at N.
C17_SessionRecordsCounted ==
    session.phase \in {"open", "closed"} =>
        /\ Len(SessionRecords) = session.frames
        /\ (session.phase = "open" \/ (last.op = "stop_saving" /\ last.eff)) =>
              frame_index = session.frames
        /\ \A i \in 1..Len(SessionRecords) :
              SessionRecords[i].filename = SessionRecords[1].filename

\* C18: a write that fails during a session ends the session: is_saving is
\* cleared and the failure is shown on the console and in a dialog, and
\* nothing is written; while is_saving is clear no frame is written; and
\* is_saving is set again only by start_saving.
C18_FailedWriteStopsSession ==
    [][/\ (last'.op = "on_message" /\ last'.report = "save_failed") =>
             /\ ~is_saving'
             /\ last'.surfaced = {"console", "dialog"}
             /\ UNCHANGED <<timeview_collection, frame_index>>
       /\ (last'.op = "on_message" /\ ~is_saving) =>
             /\ last'.saves = 0
             /\ UNCHANGED timeview_collection
       /\ (~is_saving /\ is_saving') => last'.op = "start_saving"]_vars

\* A valid frame arrived after a failed write had ended the session, and
\* was not written.
C18_Witness ==
    /\ last.op = "on_message"
    /\ last.delivered
    /\ last.report = "stored"
    /\ ~is_saving
    /\ session.phase = "off"
    /\ frame_index > 0
    /\ timeview_collection # <<>>

\* C19: no two records of the collection have the same topic, filename
\* and frameIndex.
C19_RecordsUnique ==
    \A i, j \in 1..Len(timeview_collection) :
        (/\ timeview_collection[i].topic = timeview_collection[j].topic
         /\ timeview_collection[i].filename = timeview_collection[j].filename
         /\ timeview_collection[i].frameIndex
               = timeview_collection[j].frameIndex) => i = j

\* The last n entries of q (all of q if it has fewer).
LastN(n, q) == SubSeq(q, Len(q) - Min(n, Len(q)) + 1, Len(q))

\* The samples of channel j in a channel-interleaved sample list.
ChannelSamples(plot, channels, j) ==
    [k \in 1..(Len(plot) \div channels) |-> plot[(k - 1) * channels + j]]

\* C20: while recording is off, a message makes no call to the repository
\* and changes no record; a valid frame of the selected tag with C channels
\* and C x S sample words leaves C channel buffers, each extended by the S
\* samples of its channel in order (the oldest entries leaving a full
\* buffer; a frame with another channel count starts from empty buffers).
C20_FrameBufferedNotSaved ==
    [][(last'.op = "on_message" /\ ~is_saving) =>
          /\ last'.saves = 0
          /\ UNCHANGED <<timeview_collection, frame_index, is_saving>>
          /\ (/\ last'.delivered
              /\ last'.words >= HeaderWords
              /\ last'.channels > 0
              /\ Len(last'.plot) % last'.channels = 0) =>
                /\ num_channels' = last'.channels
                /\ Len(time_view_buffers') = last'.channels
                /\ \A j \in 1..last'.channels :
                      time_view_buffers'[j] =
                          LastN(buffer_size,
                                (IF num_channels = last'.channels
                                 THEN time_view_buffers[j] ELSE <<>>)
                                \o ChannelSamples(last'.plot,
                                                  last'.channels, j))]_vars

\* A frame of 2 channels and 4 sample words arrived with recording off:
\* each of the 2 buffers holds the 2 samples of its channel, and nothing
\* was saved.
C20_Witness ==
    /\ last.op = "on_message"
    /\ last.delivered
    /\ last.channels = 2
    /\ Len(last.plot) = 4
    /\ last.saves = 0
    /\ ~is_saving
    /\ timeview_collection = <<>>
    /\ time_view_buffers = <<<<last.plot[1], last.plot[3]>>,
                             <<last.plot[2], last.plot[4]>>>>

\* ------------------------------------------------------------------------
\* Reading a recording back
\* ------------------------------------------------------------------------

\* collection.find(query).sort("frameIndex", 1): the records of the
\* collection that satisfy the query, ordered by frameIndex. The order of
\* records with equal keys is whatever the server produces: every ordering
\* with non-decreasing keys is a possible result.
find_sort_frameIndex(matching) ==
    LET n == Len(matching)
        orders == {p \in [1..n -> 1..n] :
                      /\ \A i, j \in 1..n : p[i] = p[j] => i = j
                      /\ \A i, j \in 1..n :
                            i < j => matching[p[i]].frameIndex
                                        <= matching[p[j]].frameIndex}
    IN  {[i \in 1..n |-> matching[p[i]]] : p \in orders}

\* TimeReportFeature.plot_data, lines 499-502: the frames of one file are
\* read with find({"filename": filename, ...}).sort("frameIndex", 1).
plot_data(filename) ==
    find_sort_frameIndex(
        SelectSeq(timeview_collection, LAMBDA r : r.filename = filename))

\* ------------------------------------------------------------------------
\* SpecBuf: the ring buffers of the Time View under a stream of frames
\* ------------------------------------------------------------------------

\* Most values appended to one channel buffer between two creations of the
\* buffers.
MaxAppended == 4

\* Channel count and number of sample words of the frames sent under
\* SpecBuf: a channel count of 0, one and two samples for one channel, one
\* sample for each of two channels.
BufShapes == {<<0, 1>>, <<1, 1>>, <<1, 2>>, <<2, 2>>}

\* Sampling rates other than the 4096 Hz of the publishers.
OtherRates == {2 * sample_rate}

\* The payloads sent under SpecBuf: frames of these shapes with frame index
\* 0 at the publishers' rate, and a one-channel frame at the other rate.
BufPayloads ==
    {pack(<<0, 0, sh[1], sample_rate, 16, 1024, 0, 0, 0, 0>>
          \o SampleWords(sh[2])) : sh \in BufShapes}
    \cup {pack(<<0, 0, 1, rate, 16, 1024, 0, 0, 0, 0>>
               \o SampleWords(1)) : rate \in OtherRates}

\* The last message was a frame that the Time View put into its buffers.
Buffered(l) ==
    l.op = "on_message" /\ l.report \in {"stored", "saved", "save_failed"}

\* One message under SpecBuf, with the observations kept: what has been
\* appended to each channel buffer since the buffers were created, and
\* what kinds of frame have been seen.
BufMessage ==
    /\ \E topic \in Topics, payload \in BufPayloads, ok \in WriteOutcomes :
          view_message(topic, payload, ok)
    /\ Len(timeview_collection') <= MaxViewRecords
    /\ appended' =
          IF Buffered(last')
          THEN [j \in 1..last'.channels |->
                   (IF Len(time_view_buffers) = last'.channels
                    THEN appended[j] ELSE <<>>)
                   \o [k \in 1..(Len(last'.plot) \div last'.channels) |->
                          last'.plot[(k - 1) * last'.channels + j]]]
          ELSE appended
    /\ \A j \in 1..Len(appended') : Len(appended'[j]) <= MaxAppended
    /\ seen' = [zero |-> \/ seen.zero
                         \/ /\ last'.delivered
                            /\ last'.words >= HeaderWords
                            /\ last'.channels = 0,
                reshaped |-> /\ Buffered(last')
                             /\ Len(time_view_buffers) # last'.channels
                             /\ Len(time_view_buffers) > 0
                             /\ time_view_buffers[1] # <<>>]
    /\ ViewUnchanged

\* Frames, with recording started by the feature's button (and ended by a
\* failed write or a tag switch), and the tag selection.
NextBuf ==
    \/ BufMessage
    \/ StartButton
    \/ SelectTag

SpecBuf == InitView /\ [][NextBuf]_vars

\* ------------------------------------------------------------------------
\* SpecResize: the window of the Time View changed while frames arrive
\* ------------------------------------------------------------------------

\* Window lengths in half seconds: 0.5 s, the 1.0 s of __init__, 1.5 s.
Windows == {DefaultWindow - 1, DefaultWindow, DefaultWindow + 1}

\* One and two samples for one channel, one sample for each of two.
ResizeShapes == {<<1, 1>>, <<1, 2>>, <<2, 2>>}

ResizePayloads ==
    {pack(<<0, 0, sh[1], sample_rate, 16, 1024, 0, 0, 0, 0>>
          \o SampleWords(sh[2])) : sh \in ResizeShapes}

\* window_size is a public attribute of the feature, read by
\* initialize_plot and adjust_buffer_size; no statement of the repository
\* assigns it after __init__, so another value is the input of the resize.
set_window_size(w) ==
    /\ w # window_size
    /\ window_size' = w
    /\ last' = [op |-> "set_window_size", eff |-> TRUE]

\* adjust_buffer_size, lines 533-537: when int(data_rate * window_size)
\* differs from buffer_size, buffer_size becomes it, and every channel
\* deque and the timestamp deque are rebuilt from their entries with the
\* new maxlen. old_len, old_maxlen: the first buffer's length and the
\* capacity before the call.
adjust_buffer_size ==
    \E new_buffer_size \in {capacity(data_rate, window_size)} :
        IF new_buffer_size # deque_maxlen
        THEN /\ deque_maxlen' = new_buffer_size
             /\ time_view_buffers' =
                   [j \in 1..Len(time_view_buffers) |->
                       deque(time_view_buffers[j], new_buffer_size)]
             /\ time_view_timestamps' =
                   deque(time_view_timestamps, new_buffer_size)
             /\ last' = [op |-> "update_time_view_plot", eff |-> TRUE,
                         old_len |-> Len(time_view_buffers[1]),
                         old_maxlen |-> deque_maxlen]
        ELSE /\ UNCHANGED <<deque_maxlen, time_view_buffers,
                            time_view_timestamps>>
             /\ last' = [op |-> "update_time_view_plot", eff |-> FALSE]

\* update_time_view_plot, the slot of the 100 ms timer, lines 558-566: it
\* returns without a tag, without axes (there are none exactly while
\* num_channels is 0), without buffers, or with an empty first buffer;
\* otherwise it calls adjust_buffer_size and draws the buffers.
update_time_view_plot ==
    /\ IF \/ mqtt_tag = "none"
          \/ num_channels = 0
          \/ time_view_buffers = <<>>
          \/ time_view_buffers[1] = <<>>
       THEN /\ UNCHANGED <<deque_maxlen, time_view_buffers,
                           time_view_timestamps>>
            /\ last' = [op |-> "update_time_view_plot", eff |-> FALSE]
       ELSE adjust_buffer_size
    /\ UNCHANGED <<mqtt_tag, tag_combo, is_saving, frame_index,
                   filename_counter, num_channels, toolbar_saving, session,
                   dashboard_is_saving, timeview_collection>>

ResizeUnchanged ==
    UNCHANGED <<workerVars, clientVars, timers, tags, attempts, exhausted,
                hist, handlerVars, saw_malformed, dashboardVars>>

ResizeMessage ==
    /\ \E topic \in Topics, payload \in ResizePayloads :
          view_message(topic, payload, TRUE)
    /\ ViewUnchanged
    /\ GhostUnchanged

SetWindowSize ==
    /\ \E w \in Windows : set_window_size(w)
    /\ UNCHANGED <<mqtt_tag, tag_combo, is_saving, frame_index,
                   filename_counter, num_channels, time_view_buffers,
                   toolbar_saving, session, time_view_timestamps,
                   deque_maxlen, dashboard_is_saving, timeview_collection>>
    /\ ResizeUnchanged
    /\ GhostUnchanged

UpdateTimeViewPlot ==
    /\ update_time_view_plot
    /\ UNCHANGED window_size
    /\ ResizeUnchanged
    /\ GhostUnchanged

\* Frames, the window changed, the ticks of the plot timer, and the tag
\* selection.
NextResize ==
    \/ ResizeMessage
    \/ SetWindowSize
    \/ UpdateTimeViewPlot
    \/ SelectTag

SpecResize == InitView /\ [][NextResize]_vars

\* ------------------------------------------------------------------------
\* SpecDash: the dashboard's connect and disconnect actions
\* ------------------------------------------------------------------------
\* The worker's status_update reaches MQTTHandler.connection_status as a
\* queued signal (the worker lives on the QThread, the handler on the UI
\* thread), and connection_status reaches DashboardWindow.on_mqtt_status
\* directly. worker.connected is re-emitted by MQTTHandler.on_connected as
\* the status "Connected to MQTT broker". The UI thread serves queued
\* signals between its own operations. Under SpecDash every subscribe call
\* returns.

\* The status texts that on_mqtt_status tells apart: "connected" contains
\* the word Connected ("Connected to MQTT broker"), "other" does not
\* ("Initiating connection...", "Attempt n/5 failed: ...", "Subscribed to
\* topic: ...", "Connection failed with result code ...", "Failed to
\* connect ...").
StatusTexts == {"connected", "other"}

\* The last status that an operation of the worker queues for the UI
\* thread, given what the operation did (l); nothing is queued once
\* cleanup_mqtt has disconnected connection_status. attempt_connection
\* ends with "Connected to MQTT broker" when client.connect returned, and
\* on_connect(rc = 0) ends with it always; every other path ends with a
\* text without the word.
queued_status(l) ==
    IF \/ mqtt_handler = "none"
       \/ dash_pc # "idle"
       \/ "status_update" \notin l.signals
    THEN status_pending
    ELSE IF l.op = "on_connect" \/ l.connect = "ok" THEN "connected"
    ELSE "other"

\* on_mqtt_status, lines 534-537, for the last queued status (the ones
\* before it are overwritten by it): mqtt_connected = "Connected" in
\* message, and the sub-toolbar is rebuilt.
on_mqtt_status ==
    /\ dash_pc = "idle"
    /\ ui_pc = "idle"
    /\ status_pending \in StatusTexts
    /\ mqtt_connected' = (status_pending = "connected")
    /\ status_pending' = "none"
    /\ last' = Did("on_mqtt_status", TRUE, "none", {}, {})
    /\ UNCHANGED <<mqtt_handler, dash_pc>>

\* connect_mqtt, lines 473-500: nothing if mqtt_connected or if the project
\* has no tags; otherwise cleanup_mqtt, a new MQTTHandler with its own
\* worker, client and QThread, its two signals connected, handler.start()
\* (lines 178-182: thread.start(), running = True), mqtt_connected = True
\* and the sub-toolbar rebuilt. The model follows one worker: the call is
\* taken where no handler exists and the worker of the previous one has
\* stopped (its finished thread serves none of its timers).
connect_mqtt ==
    /\ dash_pc = "idle"
    /\ ui_pc = "idle"
    /\ IF mqtt_connected \/ tags = {}
       THEN /\ last' = Did("connect_mqtt", FALSE, "none", {}, {})
            /\ UNCHANGED <<workerVars, clientVars, timers, attempts,
                           exhausted, hist, handler_running, thread,
                           quit_requested, dashboardVars>>
       ELSE /\ mqtt_handler = "none"
            /\ ~running
            /\ ~loop
            /\ running' = FALSE
            /\ retry_count' = 0
            /\ subscribed_topics' = {}
            /\ pending_subscriptions' = {}
            /\ conn' = "down"
            /\ loop' = FALSE
            /\ brokerSubs' = {}
            /\ timers' = 0
            /\ attempts' = 0
            /\ exhausted' = FALSE
            /\ hist' = HistIdle
            /\ thread' = "started"
            /\ quit_requested' = FALSE
            /\ handler_running' = TRUE
            /\ mqtt_handler' = "handler"
            /\ mqtt_connected' = TRUE
            /\ status_pending' = "none"
            /\ last' = Did("connect_mqtt", TRUE, "none", {}, {})
            /\ UNCHANGED dash_pc
    /\ UNCHANGED ui_pc

\* disconnect_mqtt, lines 502-516, up to the call of handler.stop(): with
\* mqtt_connected False it writes "Already disconnected from MQTT" and
\* returns; otherwise cleanup_mqtt (lines 449-461) disconnects
\* data_received and connection_status and calls handler.stop(), whose
\* first statement is worker.stop() on the UI thread. mqtt_connected is
\* True only while a handler exists.
disconnect_mqtt ==
    /\ dash_pc = "idle"
    /\ ui_pc = "idle"
    /\ IF ~mqtt_connected
       THEN /\ last' = Did("disconnect_mqtt", FALSE, "none", {}, {})
            /\ UNCHANGED <<workerVars, clientVars, timers, attempts,
                           exhausted, hist, handlerVars, dashboardVars>>
       ELSE /\ mqtt_handler = "handler"
            /\ handler_stop_worker
            /\ status_pending' = "none"
            /\ dash_pc' = "disconnect"
            /\ UNCHANGED <<mqtt_handler, mqtt_connected>>

\* disconnect_mqtt after handler.stop() has returned: the finally of
\* cleanup_mqtt sets mqtt_handler = None and mqtt_connected = False, the
\* sub-toolbar is rebuilt, and disconnect_mqtt returns.
disconnect_mqtt_return ==
    /\ dash_pc = "disconnect"
    /\ ui_pc = "idle"
    /\ mqtt_handler' = "none"
    /\ mqtt_connected' = FALSE
    /\ status_pending' = "none"
    /\ dash_pc' = "idle"
    /\ last' = Did("disconnect_mqtt", TRUE, "none", {}, {})
    /\ UNCHANGED <<workerVars, clientVars, timers, attempts, exhausted,
                   hist, handlerVars>>

InitDash ==
    /\ Init
    /\ tags = Topics

\* What an operation of the worker leaves of the dashboard besides the
\* queued status.
StatusQueued ==
    /\ status_pending' = queued_status(last')
    /\ UNCHANGED <<mqtt_handler, mqtt_connected, dash_pc>>

DashUnchanged ==
    UNCHANGED <<tags, handlerVars, saw_malformed, featureVars,
                timeview_collection>>

\* The dashboard's operations touch neither the tag table nor a feature.
DashboardOnly ==
    UNCHANGED <<tags, saw_malformed, featureVars, timeview_collection>>

ConnectMqtt == connect_mqtt /\ DashboardOnly

DisconnectMqtt == disconnect_mqtt /\ DashboardOnly

DisconnectMqttQuit ==
    /\ dash_pc = "disconnect"
    /\ HandlerStopQuit

DisconnectMqttWait ==
    /\ dash_pc = "disconnect"
    /\ HandlerStopReturn

DisconnectMqttReturn == disconnect_mqtt_return /\ DashboardOnly

OnMqttStatus ==
    /\ on_mqtt_status
    /\ UNCHANGED <<workerVars, clientVars, timers, attempts, exhausted,
                   hist, handlerVars>>
    /\ DashboardOnly

DashThreadStarted ==
    /\ \E out \in {"ok", "raised"}, j \in JitterMs : thread_started(out, j)
    /\ StatusQueued

DashTimerFired ==
    /\ thread = "exec"
    /\ \E out \in {"ok", "raised"}, j \in JitterMs : timer_fired(out, j)
    /\ DashUnchanged
    /\ StatusQueued

DashOnConnectAccepted ==
    /\ on_connect_accepted({}, {})
    /\ DashUnchanged
    /\ StatusQueued

DashOnConnectRefused ==
    /\ \E out \in {"ok", "raised"}, j \in JitterMs, live \in BOOLEAN :
          on_connect_refused(out, j, live)
    /\ DashUnchanged
    /\ StatusQueued

NextDash ==
    \/ ConnectMqtt
    \/ DisconnectMqtt
    \/ DisconnectMqttQuit
    \/ DisconnectMqttWait
    \/ DisconnectMqttReturn
    \/ OnMqttStatus
    \/ DashThreadStarted
    \/ ThreadFinished
    \/ DashTimerFired
    \/ DashOnConnectAccepted
    \/ DashOnConnectRefused
    \/ ConnectionLost
    \/ LoopReconnect

SpecDash == InitDash /\ [][NextDash]_vars

\* ------------------------------------------------------------------------
\* Claims C21-C30: buffers, queries, recording flags, disconnect, timers
\* ------------------------------------------------------------------------

\* C28: at most one retry chain is active in a worker: there is never more
\* than one pending singleShot timer for attempt_connection.
C28_AtMostOneRetryTimer == timers <= 1

\* C26: the recording flag of the dashboard (DashboardWindow.is_saving) and
\* the recording flag of the Time View (TimeViewFeature.is_saving) agree in
\* every reachable state.
C26_RecordingFlagsAgree == dashboard_is_saving = is_saving

\* C25: for every filename, the frames a query for that filename returns
\* are the persisted frames of that filename in the order in which they
\* were ingested (the order of their insertion into the collection).
C25_QueryReturnsIngestionOrder ==
    \A i \in 1..Len(timeview_collection) :
        \A result \in plot_data(timeview_collection[i].filename) :
            result = SelectSeq(timeview_collection,
                               LAMBDA r : r.filename
                                          = timeview_collection[i].filename)

\* C21: once more values than its capacity have been appended to a channel
\* buffer since it was created, the buffer holds exactly the last
\* `capacity` appended values, in the order of their appending.
C21_RingKeepsLastCapacity ==
    /\ Len(appended) = Len(time_view_buffers)
    /\ \A j \in 1..Len(time_view_buffers) :
          Len(appended[j]) > deque_maxlen =>
              time_view_buffers[j] =
                  SubSeq(appended[j], Len(appended[j]) - deque_maxlen + 1,
                         Len(appended[j]))

\* Two values more than its capacity have been appended to the buffer of
\* channel 1, whose oldest value is not the oldest one appended.
C21_Witness ==
    /\ Len(time_view_buffers) >= 1
    /\ Len(appended[1]) = deque_maxlen + 2
    /\ Len(time_view_buffers[1]) = deque_maxlen
    /\ time_view_buffers[1][1] # appended[1][1]

\* C23: the capacity of the channel buffers equals the sampling rate of
\* the stream, as the header of the frame just buffered reports it, times
\* the current window.
C23_CapacityFollowsStreamRate ==
    Buffered(last) => deque_maxlen = capacity(last.rate, window_size)

\* The capacity is the one the feature's own data_rate gives for the
\* current window, whatever the frames report.
C23_CapacityFollowsDataRate ==
    deque_maxlen = capacity(data_rate, window_size)

C29_BuffersAndTimestampsAligned ==
    /\ \A j \in 1..Len(time_view_buffers) :
          Len(time_view_buffers[j]) = Len(time_view_timestamps)
    /\ time_view_buffers = <<>> => time_view_timestamps = <<>>

\* Two full channel buffers that have evicted entries, next to a timestamp
\* buffer of the same length.
C29_Witness ==
    /\ Len(time_view_buffers) = 2
    /\ Len(time_view_buffers[1]) = deque_maxlen
    /\ Len(time_view_buffers[2]) = deque_maxlen
    /\ Len(time_view_timestamps) = deque_maxlen
    /\ Len(appended[2]) > deque_maxlen

\* C30: a frame with a channel count of 0 that reaches the Time View
\* changes nothing of the feature or the repository (it is reported on the
\* console as a processing error), and a valid frame that arrives after
\* one is buffered like any other.
C30_ZeroChannelsRejected ==
    [][/\ (/\ last'.op = "on_message"
           /\ last'.delivered
           /\ last'.words >= HeaderWords
           /\ last'.channels = 0) =>
             /\ UNCHANGED <<time_view_buffers, time_view_timestamps,
                            num_channels, deque_maxlen, is_saving,
                            dashboard_is_saving, frame_index,
                            filename_counter, mqtt_tag,
                            timeview_collection>>
             /\ last'.saves = 0
             /\ last'.report = "exception"
       /\ (/\ seen.zero
           /\ last'.op = "on_message"
           /\ last'.delivered
           /\ last'.words >= HeaderWords
           /\ last'.channels > 0
           /\ Len(last'.plot) % last'.channels = 0) =>
             /\ Buffered(last')
             /\ num_channels' = last'.channels
             /\ \A j \in 1..last'.channels :
                   time_view_buffers'[j] =
                       LastN(deque_maxlen',
                             (IF num_channels = last'.channels
                              THEN time_view_buffers[j] ELSE <<>>)
                             \o ChannelSamples(last'.plot,
                                               last'.channels, j))
             /\ is_saving => last'.saves = 1]_vars

\* A frame with a channel count of 0 arrived during a recording that had
\* buffered samples; the frame after it was buffered and saved.
C30_Witness ==
    /\ seen.zero
    /\ last.op = "on_message"
    /\ last.report = "saved"
    /\ frame_index = 1
    /\ Len(time_view_buffers) = 1
    /\ Len(appended[1]) >= 2

C27_DisconnectLeavesNoHandler ==
    last.op = "disconnect_mqtt" =>
        /\ mqtt_handler = "none"
        /\ ~running
        /\ ~loop
        /\ ~(thread = "exec" /\ timers > 0)

\* The same for the calls that the toolbar can make: its disconnect action
\* is enabled only while mqtt_connected is True.
C27_ToolbarDisconnectLeavesNoHandler ==
    (last.op = "disconnect_mqtt" /\ last.eff) =>
        /\ mqtt_handler = "none"
        /\ ~running
        /\ ~loop
        /\ ~(thread = "exec" /\ timers > 0)

\* What does hold when disconnect_mqtt went past its guard: the dashboard
\* holds no handler, is marked disconnected, and the handler's thread has
\* finished or never ran.
C27_DisconnectDropsHandler ==
    (last.op = "disconnect_mqtt" /\ last.eff) =>
        /\ mqtt_handler = "none"
        /\ ~mqtt_connected
        /\ ~handler_running
        /\ thread \in {"idle", "finished"}

====
